---- MODULE Spec2Model ----
(***************************************************************************)
(* Model of the Bitmap of src/src/lib.rs.                                  *)
(*                                                                         *)
(* A usize and a u64 are bit vectors: a value is the set of the positions  *)
(* of its 1 bits, so that the full machine width is kept (the arithmetic   *)
(* of roundup_pow_of_two depends on it) without leaving TLC's integers.    *)
(* The Vec<u64> is its length plus the words that are not zero: the vector *)
(* is created all-zero by vec![0u64; n], and a word absent from the map is *)
(* a zero word.                                                            *)
(***************************************************************************)
EXTENDS Integers, FiniteSets, Sequences, TLC

\* ------------------------------------------------------------------ widths
\* usize on the 64-bit targets; u64 is 64 bits on every target
USIZE_BITS == 64
MIN_BITMAP_SIZE_VAL == 64

\* find_free_slot-then-set_bit (find, then claim) is explored for slots below it
MaxIndex == 64

Bits == 0 .. (USIZE_BITS - 1)

\* ------------------------------------------------------- machine arithmetic
MaxOf(S) == CHOOSE m \in S : \A n \in S : n <= m
MinOf(S) == CHOOSE m \in S : \A n \in S : m <= n

\* the bit vector of a literal below 2^31
N(n) == {b \in 0 .. 30 : (n \div (2 ^ b)) % 2 = 1}

RECURSIVE Val(_)
\* the integer of a bit vector below 2^31 (shift counts, offsets)
Val(x) == IF x = {} THEN 0 ELSE LET b == MaxOf(x) IN (2 ^ b) + Val(x \ {b})

\* a < b: at the highest position where they differ, b has the 1
Lt(a, b) == \E k \in b : k \notin a /\ \A j \in a : j > k => j \in b

\* a <= b
Leq(a, b) == a = b \/ Lt(a, b)

\* x >> k
Shr(x, k) == {b - k : b \in {c \in x : c >= k}}

\* x & y, x | y
BitAnd(x, y) == x \cap y
BitOr(x, y) == x \cup y

\* x - 1: [val |-> wrapped result, ovf |-> the subtraction underflows]
Dec(x) ==
  IF x = {} THEN [val |-> Bits, ovf |-> TRUE]
  ELSE LET l == MinOf(x) IN [val |-> (x \ {l}) \cup (0 .. (l - 1)), ovf |-> FALSE]

\* x + 1: [val |-> wrapped result, ovf |-> the addition overflows]
Inc(x) ==
  IF x = Bits THEN [val |-> {}, ovf |-> TRUE]
  ELSE LET l == CHOOSE k \in Bits : k \notin x /\ \A j \in 0 .. (k - 1) : j \in x
       IN [val |-> (x \ (0 .. (l - 1))) \cup {l}, ovf |-> FALSE]

ZERO == N(0)
ONE == N(1)
MIN_BITMAP_SIZE == N(MIN_BITMAP_SIZE_VAL)
LOG_SZ == N(6)
MASK == N(63)

\* ------------------------------------------------------------------- state
VARIABLES
  status,        \* "none": nothing constructed; "live"; "panic": the last call failed fatally
  rounded_size,  \* Bitmap.rounded_size
  mask,          \* Bitmap.mask
  log_sz,        \* Bitmap.log_sz
  bitmap,        \* Bitmap.bitmap: [len |-> usize, w |-> the nonzero words by index]
  start_bit,     \* Bitmap.start_bit
  ctor,          \* the constructor call the bitmap comes from: [op, a, b]
  call,          \* the last call made: [op, a, b]
  ret            \* what the last call returned: [tag, v]

vars == <<status, rounded_size, mask, log_sz, bitmap, start_bit, ctor, call, ret>>
fields == <<rounded_size, mask, log_sz, bitmap, start_bit>>

Call(op, a, b) == [op |-> op, a |-> a, b |-> b]
Ret(tag, v) == [tag |-> tag, v |-> v]
Panicked == Ret("panic", {})
Unit == Ret("unit", {})

\* vec![0u64; n]
ZeroVec(n) == [len |-> n, w |-> [j \in {} |-> {}]]

\* bitmap[i] (i < len)
Word(bm, i) == IF i \in DOMAIN bm.w THEN bm.w[i] ELSE {}

\* bitmap[i] = v
Store(bm, i, v) ==
  [len |-> bm.len,
   w |-> [j \in ((DOMAIN bm.w) \cup {i}) \ (IF v = {} THEN {i} ELSE {}) |->
            IF j = i THEN v ELSE bm.w[j]]]

\* the index is inside the vector (the bounds check of bitmap[i])
InBounds(bm, i) == Lt(i, bm.len)

\* ------------------------------------------------------------ Bitmap: new
\* one smearing step of roundup_pow_of_two: x |= x >> k
Smear(x, k) == BitOr(x, Shr(x, k))

\* fn roundup_pow_of_two(x): [val |-> the result with wrapping arithmetic,
\*                            ovf |-> x - 1 or x + 1 overflows]
roundup_pow_of_two(x) ==
  LET d  == Dec(x)
      x1 == Smear(d.val, 1)
      x2 == Smear(x1, 2)
      x4 == Smear(x2, 4)
      x8 == Smear(x4, 8)
      x16 == Smear(x8, 16)
      i  == Inc(x16)
  IN [val |-> i.val, ovf |-> d.ovf \/ i.ovf]

\* let size = if size < MIN_BITMAP_SIZE { MIN_BITMAP_SIZE } else { size }
ClampSize(size) == IF Lt(size, MIN_BITMAP_SIZE) THEN MIN_BITMAP_SIZE ELSE size

\* the number of words for a capacity: rounded_size >> log_sz, plus one when
\* (rounded_size & mask) != 0
WordCount(rs, lg, mk) ==
  LET q == Shr(rs, Val(lg))
  IN IF BitAnd(rs, mk) # {} THEN Inc(q).val ELSE q

\* the struct new(size) builds from a rounded size
Build(rs) ==
  LET lg == LOG_SZ
      mk == MASK
  IN [ok |-> TRUE, rounded_size |-> rs, mask |-> mk, log_sz |-> lg,
      start_bit |-> ZERO, bitmap |-> ZeroVec(WordCount(rs, lg, mk))]

Failed == [ok |-> FALSE]

\* Bitmap::new(size): the outcomes the builds can produce. An arithmetic
\* overflow panics where overflow checks are on (debug profile) and wraps
\* where they are off (release profile).
NewOutcomes(size) ==
  LET r == roundup_pow_of_two(ClampSize(size))
  IN IF r.ovf THEN {Failed, Build(r.val)} ELSE {Build(r.val)}

Install(o) ==
  /\ rounded_size' = o.rounded_size
  /\ mask' = o.mask
  /\ log_sz' = o.log_sz
  /\ bitmap' = o.bitmap
  /\ start_bit' = o.start_bit

Panic ==
  /\ status' = "panic"
  /\ ret' = Panicked
  /\ UNCHANGED fields

\* ------------------------------------------------------------------ inputs
Pow2(k) == {k}
UsizeMax == Bits

\* 0, 64, 65, 2^32 + 1, usize::MAX
Sizes == {N(0), N(64), N(65), Pow2(32) \cup N(1), UsizeMax}
ReservedArgs == {N(20), N(64)}
\* 0, 64, and 2^33 - 2 and 2^33 - 1: the last bit of, and the first bit
\* after, the capacity new(2^32 + 1) yields
BitArgs == {N(0), N(64), 1 .. 32, 0 .. 32}
ClaimLimit == N(MaxIndex)

\* ----------------------------------------------------------------- actions
New(size) ==
  /\ status = "none"
  /\ call' = Call("new", size, {})
  /\ ctor' = call'
  /\ \E o \in NewOutcomes(size) :
       IF o.ok
       THEN /\ Install(o)
            /\ status' = "live"
            /\ ret' = Ret("self", {})
       ELSE Panic

NewWithReserved(size, reserved_space) ==
  /\ status = "none"
  /\ call' = Call("new_with_reserved", size, reserved_space)
  /\ ctor' = call'
  /\ IF ~Lt(reserved_space, size)
     THEN Panic
     ELSE \E o \in NewOutcomes(size) :
            IF o.ok
            THEN /\ Install([o EXCEPT !.start_bit = reserved_space])
                 /\ status' = "live"
                 /\ ret' = Ret("self", {})
            ELSE Panic

\* mutant: the assertion admits bit == rounded_size
RangeAssertInclusive(bit, size) == Leq(bit, size)

\* assert!(bit < self.rounded_size)
RangeAssert(bit, size) == Lt(bit, size)

\* bit >> self.log_sz
SelectedMask(bit, lg) == Shr(bit, Val(lg))

\* bit & self.mask
MaskBit(bit, mk) == BitAnd(bit, mk)

\* 1u64 << mask_bit (mask_bit <= 63: the shift never overflows)
Shl1(mask_bit) == {Val(mask_bit)}

\* mutant: w ^= m
OrAssignXor(w, m) == (w \ m) \cup (m \ w)

\* w |= m
OrAssign(w, m) == BitOr(w, m)

\* mutant: the complement is forgotten
Not64Identity(m) == m

\* !m on a u64
Not64(m) == (0 .. 63) \ m

\* mutant: w ^= m
AndNotAssignXor(w, m) == (w \ m) \cup (m \ w)

\* w &= !m
AndNotAssign(w, m) == BitAnd(w, Not64(m))

\* (w >> mask_bit) & 1
BitOf(w, mask_bit) == BitAnd(Shr(w, Val(mask_bit)), ONE)

SetBit(bit) ==
  /\ status = "live"
  /\ call' = Call("set_bit", bit, {})
  /\ UNCHANGED ctor
  /\ IF ~RangeAssert(bit, rounded_size)
     THEN Panic
     ELSE LET selected_mask == SelectedMask(bit, log_sz)
              mask_bit == MaskBit(bit, mask)
          IN IF ~InBounds(bitmap, selected_mask)
             THEN Panic
             ELSE /\ bitmap' = Store(bitmap, selected_mask,
                                     OrAssign(Word(bitmap, selected_mask), Shl1(mask_bit)))
                  /\ ret' = Unit
                  /\ UNCHANGED <<status, rounded_size, mask, log_sz, start_bit>>

UnsetBit(bit) ==
  /\ status = "live"
  /\ call' = Call("unset_bit", bit, {})
  /\ UNCHANGED ctor
  /\ IF ~RangeAssert(bit, rounded_size)
     THEN Panic
     ELSE LET selected_mask == SelectedMask(bit, log_sz)
              mask_bit == MaskBit(bit, mask)
          IN IF ~InBounds(bitmap, selected_mask)
             THEN Panic
             ELSE /\ bitmap' = Store(bitmap, selected_mask,
                                     AndNotAssign(Word(bitmap, selected_mask), Shl1(mask_bit)))
                  /\ ret' = Unit
                  /\ UNCHANGED <<status, rounded_size, mask, log_sz, start_bit>>

\* the value is_set(bit) computes: "panic", "true" or "false"
is_set(bit) ==
  IF ~RangeAssert(bit, rounded_size)
  THEN "panic"
  ELSE LET selected_mask == SelectedMask(bit, log_sz)
           mask_bit == MaskBit(bit, mask)
       IN IF ~InBounds(bitmap, selected_mask)
          THEN "panic"
          ELSE IF BitOf(Word(bitmap, selected_mask), mask_bit) = ONE
               THEN "true" ELSE "false"

IsSet(bit) ==
  /\ status = "live"
  /\ call' = Call("is_set", bit, {})
  /\ UNCHANGED ctor
  /\ LET r == is_set(bit)
     IN IF r = "panic"
        THEN Panic
        ELSE /\ ret' = Ret(r, {})
             /\ UNCHANGED <<status, fields>>

\* if ((self.bitmap[selected_mask] >> mask_bit) & 1) == 0
SlotFree(w, mask_bit) == BitOf(w, mask_bit) = ZERO

\* mutant: the scan starts at bit 0
ScanFirstZero(sb) == ZERO

\* mutant: the scan starts one bit late
ScanFirstPlusOne(sb) == Inc(sb).val

\* the first value of the range self.start_bit..self.rounded_size
ScanFirst(sb) == sb

RECURSIVE ScanFrom(_, _)
\* the loop of find_free_slot over self, from bit on
ScanFrom(self, bit) ==
  IF ~Lt(bit, self.rounded_size)
  THEN Ret("none", {})
  ELSE LET selected_mask == SelectedMask(bit, self.log_sz)
           mask_bit == MaskBit(bit, self.mask)
       IN IF ~InBounds(self.bitmap, selected_mask)
          THEN Panicked
          ELSE IF SlotFree(Word(self.bitmap, selected_mask), mask_bit)
               THEN Ret("some", bit)
               ELSE ScanFrom(self, Inc(bit).val)

\* the value find_free_slot() computes on self
FindFreeSlotOf(self) == ScanFrom(self, ScanFirst(self.start_bit))

\* the Bitmap struct
Self == [rounded_size |-> rounded_size, mask |-> mask, log_sz |-> log_sz,
         bitmap |-> bitmap, start_bit |-> start_bit]

find_free_slot == FindFreeSlotOf(Self)

FindFreeSlot ==
  /\ status = "live"
  /\ call' = Call("find_free_slot", {}, {})
  /\ UNCHANGED ctor
  /\ LET r == find_free_slot
     IN IF r = Panicked
        THEN Panic
        ELSE /\ ret' = r
             /\ UNCHANGED <<status, fields>>

BitSize ==
  /\ status = "live"
  /\ call' = Call("bit_size", {}, {})
  /\ UNCHANGED ctor
  /\ ret' = Ret("usize", rounded_size)
  /\ UNCHANGED <<status, fields>>

Size ==
  /\ status = "live"
  /\ call' = Call("size", {}, {})
  /\ UNCHANGED ctor
  /\ ret' = Ret("usize", bitmap.len)
  /\ UNCHANGED <<status, fields>>

\* the indices the caller passes to set_bit: the fixed ones, and the slot
\* find_free_slot reports (find-then-claim) while it is below MaxIndex
ClaimArgs ==
  IF status = "live"
  THEN LET r == find_free_slot
       IN IF r.tag = "some" /\ Lt(r.v, ClaimLimit) THEN {r.v} ELSE {}
  ELSE {}

Init ==
  /\ status = "none"
  /\ rounded_size = {}
  /\ mask = {}
  /\ log_sz = {}
  /\ bitmap = ZeroVec({})
  /\ start_bit = {}
  /\ ctor = Call("none", {}, {})
  /\ call = Call("none", {}, {})
  /\ ret = Unit

Next ==
  \/ \E s \in Sizes : New(s)
  \/ \E s \in Sizes, r \in ReservedArgs : NewWithReserved(s, r)
  \/ \E b \in BitArgs \cup ClaimArgs : SetBit(b)
  \/ \E b \in BitArgs : UnsetBit(b)
  \/ \E b \in BitArgs : IsSet(b)
  \/ FindFreeSlot
  \/ BitSize
  \/ Size

Spec == Init /\ [][Next]_vars

\* --------------------------------------------------- vocabulary of the claims

\* p is the smallest power of two that is >= m
SmallestPow2Geq(m, p) ==
  /\ Cardinality(p) = 1
  /\ Leq(m, p)
  /\ \A k \in Bits : Leq(m, {k}) => Leq(p, {k})

\* the index of the bit at offset o of word i: i * 64 + o
Offsets == [o \in 0 .. 63 |-> N(o)]
BitIndex(i, o) == {b + 6 : b \in i} \cup Offsets[o]

\* the indices of the bits that are 1
SetBits == UNION {{BitIndex(i, o) : o \in bitmap.w[i]} : i \in DOMAIN bitmap.w}

RECURSIVE Between(_, _)
\* the indices of [a, b)
Between(a, b) == IF Lt(a, b) THEN {a} \cup Between(Inc(a).val, b) ELSE {}

Live == status = "live"

\* ------------------------------------------------------------------ claims

\* C1: whenever find_free_slot() has returned, it returned Some(i) with i the
\* smallest index of [start_bit, bit_size()) whose bit is 0, or None and every
\* bit of [start_bit, bit_size()) is 1.
C1_FindFreeSlotSmallest ==
  (Live /\ call.op = "find_free_slot") =>
    \/ /\ ret.tag = "some"
       /\ Leq(start_bit, ret.v)
       /\ Lt(ret.v, rounded_size)
       /\ ret.v \notin SetBits
       /\ Between(start_bit, ret.v) \subseteq SetBits
    \/ /\ ret.tag = "none"
       /\ Between(start_bit, rounded_size) \subseteq SetBits

\* a bitmap of capacity 64 with all 64 bits set: find_free_slot() returned None
C1_Witness ==
  /\ Live /\ call.op = "find_free_slot" /\ ret.tag = "none"
  /\ rounded_size = N(64) /\ start_bit = ZERO
  /\ Cardinality(SetBits) = 64

\* C2: the bitmap new(s) returns has bit_size() equal to the smallest power
\* of two that is >= max(s, 64).
C2_BitSizeIsPow2 ==
  (Live /\ call.op = "new") =>
    SmallestPow2Geq(IF Lt(call.a, N(64)) THEN N(64) ELSE call.a, rounded_size)

\* C3: in every state of a constructed bitmap size() == bit_size() / 64 and
\* bit_size() is a multiple of 64.
C3_SizeIsBitSizeOver64 ==
  Live => /\ bitmap.len = Shr(rounded_size, 6)
          /\ BitAnd(rounded_size, N(63)) = {}

\* C4: right after set_bit(i) has returned is_set(i) is true, and right after
\* unset_bit(i) has returned is_set(i) is false.
C4_SetThenTest ==
  /\ (Live /\ call.op = "set_bit") => is_set(call.a) = "true"
  /\ (Live /\ call.op = "unset_bit") => is_set(call.a) = "false"

\* unset_bit(64) has returned on a bitmap of two words with other bits set
C4_Witness ==
  /\ Live /\ call.op = "unset_bit" /\ call.a = N(64)
  /\ rounded_size = N(128) /\ SetBits # {}

\* C5: set_bit(i) and unset_bit(i) leave every bit other than i, the capacity,
\* the word count and start_bit as they were; is_set and find_free_slot
\* change no field, and find_free_slot() called again returns the same.
C5_Frame ==
  [][Live =>
      /\ (call'.op \in {"set_bit", "unset_bit"}) =>
            /\ SetBits' \ {call'.a} = SetBits \ {call'.a}
            /\ rounded_size' = rounded_size
            /\ bitmap'.len = bitmap.len
            /\ start_bit' = start_bit
      /\ (call'.op \in {"is_set", "find_free_slot"}) => UNCHANGED fields
      /\ (call.op = "find_free_slot" /\ call'.op = "find_free_slot") => ret' = ret
    ]_vars

\* unset_bit(0) has returned and left other bits of word 0 set
C5_Witness ==
  /\ Live /\ call.op = "unset_bit" /\ call.a = ZERO
  /\ Cardinality(SetBits \cap {N(1), N(2), N(3)}) = 3

C7_RangeChecked ==
  [][(Live /\ call'.op \in {"set_bit", "unset_bit", "is_set"}) =>
       IF Lt(call'.a, rounded_size)
       THEN status' = "live" /\ ret' # Panicked
       ELSE status' = "panic" /\ ret' = Panicked /\ UNCHANGED fields
    ]_vars

\* set_bit(64) on a bitmap of capacity 64 failed
C7_Witness ==
  /\ status = "panic" /\ call = Call("set_bit", N(64), {})
  /\ rounded_size = N(64)

\* C8: new_with_reserved(s, r) fails exactly when r >= s; otherwise it
\* returns what new(s) returns with start_bit == r, and start_bit < bit_size()
\* holds for that bitmap from then on.
C8_ReservedContract ==
  ctor.op = "new_with_reserved" =>
    /\ (call = ctor) =>
         /\ (status = "panic") <=> ~Lt(ctor.b, ctor.a)
         /\ Live => \E o \in NewOutcomes(ctor.a) :
                      /\ o.ok
                      /\ <<rounded_size, mask, log_sz, bitmap>>
                           = <<o.rounded_size, o.mask, o.log_sz, o.bitmap>>
    /\ Live => start_bit = ctor.b /\ Lt(start_bit, rounded_size)

\* C9: new(s) never fails and never overflows, and returns a bitmap with all
\* bits unset and start_bit == 0; new(0) has bit_size() == 64.
C9_NewTotal ==
  (call.op = "new") =>
    /\ Live
    /\ ~roundup_pow_of_two(ClampSize(call.a)).ovf
    /\ SetBits = {}
    /\ start_bit = ZERO
    /\ (call.a = ZERO => rounded_size = N(64))

\* C10: a second set_bit(i) right after set_bit(i), and a second unset_bit(i)
\* right after unset_bit(i), leaves every is_set result, the find_free_slot
\* result, bit_size() and size() as the first left them.
C10_Idempotent ==
  [][(Live /\ call.op \in {"set_bit", "unset_bit"} /\ call' = call) =>
       /\ status' = "live"
       /\ SetBits' = SetBits
       /\ FindFreeSlotOf(Self') = FindFreeSlotOf(Self)
       /\ rounded_size' = rounded_size
       /\ bitmap'.len = bitmap.len
    ]_vars

\* set_bit(64) has returned on a bitmap where other bits are set too
C10_Witness ==
  /\ Live /\ call.op = "set_bit" /\ call.a = N(64)
  /\ Cardinality(SetBits) >= 3

====
